---- MODULE Spec2Model ----
(***************************************************************************)
(* Lumora chart sampling utilities (chart-sampling.ts, carried in          *)
(* src/TESTING.md from line 194 on): minMaxSample and evenSample.          *)
(*                                                                         *)
(* A call is modelled from its entry to its return, one action per         *)
(* early-return block, loop test, loop body and tail, so that both the     *)
(* returned array and the termination of the loops can be examined.        *)
(* Arrays are 0-based in the source and 1-based here: data[i] of the       *)
(* source is data[i + 1] of the model.                                     *)
(***************************************************************************)
EXTENDS Integers, Sequences, FiniteSets, TLC

\* a call of a sampler: its arguments, its position and its locals
VARIABLES fn, data, maxPoints, pc, i, bucketSize, step, result

\* a call of one of the other pure functions (checkRenderingLimits,
\* calculateTicks, calculateTickInterval, truncateLabel,
\* formatCompactNumber): the function, its arguments, its position, its
\* returned value
VARIABLES ufn, uargs, upc, uret

\* a VisualizationCard and the ChartRenderer inside it: the spec prop (<<>>
\* is null), the three pieces of state of the card, whether a render is due
\* (cpc), what the last render put on the screen (shown) and, of the
\* ChartRenderer that render mounted, the result of the guard (<<>> when it
\* was not called), whether minMaxSample ran, the length of processedData
\* and the interval given to the x axis
VARIABLES spec, isExpanded, viewMode, fallbackReason, cpc, shown,
          guard, sampled, processedLen, interval

\* the session store (useSessionStore): one record of its fields
VARIABLES store

\* the AppContent component: its apiAvailable state; the availability probe
\* checkHealth (its position hpc, the retries and delay of the attempt under
\* way, the delays given to setTimeout so far); the position of each call of
\* handleFileSelect and of each call of handleSendMessage
VARIABLES apiAvailable, hpc, retries, delay, timers, fpc, mpc

samplerVars == <<fn, data, maxPoints, pc, i, bucketSize, step, result>>

cardVars == <<spec, isExpanded, viewMode, fallbackReason, cpc, shown,
              guard, sampled, processedLen, interval>>

utilVars == <<ufn, uargs, upc, uret>>

appVars == <<store, apiAvailable, hpc, retries, delay, timers, fpc, mpc>>

\* everything but the variables of a sampler call
nonSamplerVars == <<utilVars, cardVars, appVars>>

\* everything but the variables of a call of another pure function
nonUtilVars == <<samplerVars, cardVars, appVars>>

\* everything but the variables of a card
nonCardVars == <<samplerVars, utilVars, appVars>>

\* everything but the variables of the store and the component
nonAppVars == <<samplerVars, utilVars, cardVars>>

vars == <<samplerVars, utilVars, cardVars, appVars>>

(***************************************************************************)
(* Bounds of the model.                                                    *)
(***************************************************************************)
\* longest input series
MaxLen == 5
\* maxPoints ranges over -MaxNegPoints .. MaxPosPoints
MaxPosPoints == 5
MaxNegPoints == 3

(***************************************************************************)
(* Numbers.  The source computes with IEEE doubles.  Every quantity the    *)
(* samplers compute is an integer, +Infinity (a division by maxPoints = 0) *)
(* or a negative integer that keeps decreasing.  Infinity is modelled by   *)
(* an integer above every index the model can reach; a double that keeps   *)
(* decreasing ends at a value that an addition no longer changes (beyond   *)
(* 2^53 the sum rounds back to the same double), which NumLimit scales     *)
(* down.  The largest index a call reaches is below 2 * MaxLen + 1.        *)
(***************************************************************************)
NumLimit == 2 * MaxLen + 2

Infinity == NumLimit + 1

\* a + b of the source, for a, b integers or Infinity
NumAdd(a, b) ==
    IF a = Infinity \/ b = Infinity THEN Infinity
    ELSE IF a + b < -NumLimit THEN a
    ELSE a + b

\* Math.min
MathMin(a, b) == IF a <= b THEN a ELSE b

\* CeilDiv with Math.floor in the place of Math.ceil
FloorDiv(a, b) ==
    IF b > 0 THEN a \div b
    ELSE -((a + (-b) - 1) \div (-b))

\* Math.ceil(a / b) for an integer a >= 0 and an integer b # 0
CeilDiv(a, b) ==
    IF b > 0 THEN (a + b - 1) \div b
    ELSE -(a \div (-b))

\* the engine's limit on the length of an array (2^32 - 1), scaled down
ArrayLimit == 2 * MaxLen

(***************************************************************************)
(* Points.  A point is an object; id is its identity (its reference), v    *)
(* the raw value of its field valueKey.  The points of an input series are *)
(* distinct objects, and the id of a point is its index in the series.     *)
(***************************************************************************)
Num(n) == [kind |-> "num", n |-> n]

\* a string that is not a number: Number("abc") is NaN
Text == [kind |-> "text", n |-> 0]

\* the field is absent: Number(undefined) is NaN
Missing == [kind |-> "missing", n |-> 0]

RawValues == {Num(-1), Num(2), Text, Missing}

\* data[i] for an index outside of the array
Undefined == [id |-> -1, v |-> Missing]

\* Number(point[valueKey]) || 0
Coerce(p) == IF p.v.kind = "num" THEN p.v.n ELSE 0

MkSeries(vs) == [k \in 1..Len(vs) |-> [id |-> k - 1, v |-> vs[k]]]

\* the series of the documented scenario: v = 1, 9, 2, 0 at t = 0..3
ScenarioSeries == MkSeries(<<Num(1), Num(9), Num(2), Num(0)>>)

SeriesSet ==
    {MkSeries(vs) : vs \in UNION {[1..n -> RawValues] : n \in 0..MaxLen}}
        \cup {ScenarioSeries}

\* data[k] of the source
At(arr, k) == IF k \in 0..(Len(arr) - 1) THEN arr[k + 1] ELSE Undefined

\* Slice with an end that is one too small
SliceShort(arr, start, end) ==
    LET len == Len(arr)
        s == IF start < 0 THEN (IF len + start < 0 THEN 0 ELSE len + start)
             ELSE MathMin(start, len)
        e == IF end < 0 THEN (IF len + end < 0 THEN 0 ELSE len + end)
             ELSE MathMin(end, len)
    IN  IF s >= e - 1 THEN <<>> ELSE SubSeq(arr, s + 1, e - 1)

\* Array.prototype.slice(start, end): a negative index counts from the end
Slice(arr, start, end) ==
    LET len == Len(arr)
        s == IF start < 0 THEN (IF len + start < 0 THEN 0 ELSE len + start)
             ELSE MathMin(start, len)
        e == IF end < 0 THEN (IF len + end < 0 THEN 0 ELSE len + end)
             ELSE MathMin(end, len)
    IN  IF s >= e THEN <<>> ELSE SubSeq(arr, s + 1, e)

\* Array.prototype.indexOf: the first position holding the same object
IndexOf(arr, p) ==
    IF \E k \in 1..Len(arr) : arr[k] = p
    THEN (CHOOSE k \in 1..Len(arr) :
              arr[k] = p /\ \A m \in 1..(k - 1) : arr[m] # p) - 1
    ELSE -1

(***************************************************************************)
(* minMaxSample                                                            *)
(***************************************************************************)
\* FitsAsIs with < in the place of <=
FitsBelow(len, mp) == len < mp

\* the early return of both samplers: data.length <= maxPoints
FitsAsIs(len, mp) == len <= mp

\* BucketSize without the division of maxPoints by 2
BucketSizeNoHalf(len, mp) ==
    IF mp = 0 THEN Infinity ELSE CeilDiv(len, mp)

\* Math.ceil(data.length / (maxPoints / 2)), for data.length > 0
BucketSize(len, mp) ==
    IF mp = 0 THEN Infinity ELSE CeilDiv(2 * len, mp)

\* ScanStep with <= and >= in the place of < and >: the last occurrence wins
ScanStepLastWins(st, point) ==
    LET val == Coerce(point)
        s1 == IF val <= st.minVal
              THEN [st EXCEPT !.minVal = val, !.minPoint = point]
              ELSE st
    IN  IF val >= s1.maxVal
        THEN [s1 EXCEPT !.maxVal = val, !.maxPoint = point]
        ELSE s1

\* one pass of the loop over the points of a bucket
ScanStep(st, point) ==
    LET val == Coerce(point)
        s1 == IF val < st.minVal
              THEN [st EXCEPT !.minVal = val, !.minPoint = point]
              ELSE st
    IN  IF val > s1.maxVal
        THEN [s1 EXCEPT !.maxVal = val, !.maxPoint = point]
        ELSE s1

RECURSIVE ScanFrom(_, _, _)
ScanFrom(bucket, k, st) ==
    IF k > Len(bucket) THEN st
    ELSE ScanFrom(bucket, k + 1, ScanStep(st, bucket[k]))

\* minPoint, maxPoint, minVal, maxVal after the scan of a bucket
ScanBucket(bucket) ==
    ScanFrom(bucket, 1,
             [minPoint |-> bucket[1], maxPoint |-> bucket[1],
              minVal |-> Coerce(bucket[1]), maxVal |-> Coerce(bucket[1])])

\* EmitPair without the comparison of the two indices: minimum first
EmitMinFirst(bucket, minPoint, maxPoint) ==
    <<minPoint>> \o (IF minPoint # maxPoint THEN <<maxPoint>> ELSE <<>>)

\* the points pushed for a bucket of two points or more
EmitPair(bucket, minPoint, maxPoint) ==
    LET minIndex == IndexOf(bucket, minPoint)
        maxIndex == IndexOf(bucket, maxPoint)
    IN  IF minIndex <= maxIndex
        THEN <<minPoint>> \o (IF minPoint # maxPoint THEN <<maxPoint>> ELSE <<>>)
        ELSE <<maxPoint>> \o (IF minPoint # maxPoint THEN <<minPoint>> ELSE <<>>)

\* what one iteration of the loop pushes for a bucket
EmitBucket(bucket) ==
    IF Len(bucket) = 0 THEN <<>>
    ELSE IF Len(bucket) = 1 THEN <<bucket[1]>>
    ELSE LET st == ScanBucket(bucket)
         IN  EmitPair(bucket, st.minPoint, st.maxPoint)

MinMaxEnter ==
    /\ pc = "start"
    /\ fn = "minMaxSample"
    /\ IF Len(data) = 0
       THEN /\ result' = <<>>
            /\ pc' = "done"
            /\ UNCHANGED <<i, bucketSize>>
       ELSE IF FitsAsIs(Len(data), maxPoints)
       THEN /\ result' = data
            /\ pc' = "done"
            /\ UNCHANGED <<i, bucketSize>>
       ELSE /\ bucketSize' = BucketSize(Len(data), maxPoints)
            /\ result' = <<>>
            /\ i' = 0
            /\ pc' = "test"
    /\ UNCHANGED <<fn, data, maxPoints, step>>
    /\ UNCHANGED nonSamplerVars

MinMaxTest ==
    /\ pc = "test"
    /\ fn = "minMaxSample"
    /\ pc' = IF i < Len(data) THEN "body" ELSE "done"
    /\ UNCHANGED <<fn, data, maxPoints, i, bucketSize, step, result>>
    /\ UNCHANGED nonSamplerVars

MinMaxBody ==
    /\ pc = "body"
    /\ fn = "minMaxSample"
    /\ LET bucket == Slice(data, i, MathMin(NumAdd(i, bucketSize), Len(data)))
       IN  result' = result \o EmitBucket(bucket)
    /\ i' = NumAdd(i, bucketSize)
    /\ pc' = "test"
    /\ UNCHANGED <<fn, data, maxPoints, bucketSize, step>>
    /\ UNCHANGED nonSamplerVars

(***************************************************************************)
(* evenSample                                                              *)
(***************************************************************************)
\* Step with Math.floor in the place of Math.ceil
StepFloor(len, mp) ==
    IF mp = 0 THEN Infinity ELSE FloorDiv(len, mp)

\* Math.ceil(data.length / maxPoints), for data.length > 0
Step(len, mp) ==
    IF mp = 0 THEN Infinity ELSE CeilDiv(len, mp)

\* result[result.length - 1] !== data[data.length - 1]
LastMissing(res, arr) == At(res, Len(res) - 1) # At(arr, Len(arr) - 1)

EvenEnter ==
    /\ pc = "start"
    /\ fn = "evenSample"
    /\ IF Len(data) = 0
       THEN /\ result' = <<>>
            /\ pc' = "done"
            /\ UNCHANGED <<i, step>>
       ELSE IF FitsAsIs(Len(data), maxPoints)
       THEN /\ result' = data
            /\ pc' = "done"
            /\ UNCHANGED <<i, step>>
       ELSE /\ step' = Step(Len(data), maxPoints)
            /\ result' = <<>>
            /\ i' = 0
            /\ pc' = "test"
    /\ UNCHANGED <<fn, data, maxPoints, bucketSize>>
    /\ UNCHANGED nonSamplerVars

EvenTest ==
    /\ pc = "test"
    /\ fn = "evenSample"
    /\ pc' = IF i < Len(data) THEN "body" ELSE "tail"
    /\ UNCHANGED <<fn, data, maxPoints, i, bucketSize, step, result>>
    /\ UNCHANGED nonSamplerVars

\* result.push(data[i]); a push onto an array of the engine's largest
\* length throws
EvenBody ==
    /\ pc = "body"
    /\ fn = "evenSample"
    /\ IF Len(result) >= ArrayLimit
       THEN /\ pc' = "raised"
            /\ UNCHANGED <<i, result>>
       ELSE /\ result' = Append(result, At(data, i))
            /\ i' = NumAdd(i, step)
            /\ pc' = "test"
    /\ UNCHANGED <<fn, data, maxPoints, bucketSize, step>>
    /\ UNCHANGED nonSamplerVars

EvenTail ==
    /\ pc = "tail"
    /\ fn = "evenSample"
    /\ result' = IF LastMissing(result, data)
                 THEN Append(result, At(data, Len(data) - 1))
                 ELSE result
    /\ pc' = "done"
    /\ UNCHANGED <<fn, data, maxPoints, i, bucketSize, step>>
    /\ UNCHANGED nonSamplerVars

(***************************************************************************)
(* Specification                                                           *)
(***************************************************************************)
\* no call of another pure function is under way
UtilIdle ==
    /\ ufn = "none"
    /\ uargs = <<>>
    /\ upc = "idle"
    /\ uret = <<>>

\* no ChartRenderer is mounted
RendererIdle ==
    /\ guard = <<>>
    /\ sampled = FALSE
    /\ processedLen = 0
    /\ interval = 0

\* no card
CardIdle ==
    /\ spec = <<>>
    /\ isExpanded = TRUE
    /\ viewMode = "chart"
    /\ fallbackReason = <<>>
    /\ cpc = "none"
    /\ shown = "nothing"
    /\ RendererIdle

\* the numbers of calls of handleFileSelect and of handleSendMessage
MaxUploads == 1

MaxSends == 1

Uploads == 1..MaxUploads

Sends == 1..MaxSends

\* the initial state of the store; null is <<>>, a value v is <<v>>
InitialStore ==
    [currentSession |-> <<>>, sessions |-> <<>>, dataset |-> <<>>,
     healthCheck |-> <<>>, insights |-> <<>>, suggestedQuestions |-> <<>>,
     messages |-> <<>>, isTyping |-> FALSE, status |-> "idle",
     error |-> <<>>, mappingActive |-> FALSE]

\* no call of handleFileSelect and none of handleSendMessage yet
NoCalls ==
    /\ fpc = [u \in Uploads |-> "idle"]
    /\ mpc = [m \in Sends |-> "idle"]

\* the component is not mounted and the store is untouched
AppIdle ==
    /\ store = InitialStore
    /\ apiAvailable = TRUE
    /\ hpc = "none"
    /\ retries = 0
    /\ delay = 0
    /\ timers = <<>>
    /\ NoCalls

Init ==
    /\ fn \in {"minMaxSample", "evenSample"}
    /\ data \in SeriesSet
    /\ maxPoints \in (-MaxNegPoints)..MaxPosPoints
    /\ pc = "start"
    /\ i = 0
    /\ bucketSize = 0
    /\ step = 0
    /\ result = <<>>
    /\ UtilIdle
    /\ CardIdle
    /\ AppIdle

Next ==
    \/ MinMaxEnter
    \/ MinMaxTest
    \/ MinMaxBody
    \/ EvenEnter
    \/ EvenTest
    \/ EvenBody
    \/ EvenTail

Spec == Init /\ [][Next]_vars

\* a call that has started runs on: the host runs each call to completion
FairSpec == Init /\ [][Next]_vars /\ WF_vars(Next)

TypeOK ==
    /\ fn \in {"minMaxSample", "evenSample"}
    /\ pc \in {"start", "test", "body", "tail", "done", "raised"}
    /\ maxPoints \in (-MaxNegPoints)..MaxPosPoints
    /\ i \in (-NumLimit - 2 * MaxLen)..Infinity

(***************************************************************************)
(* The bucketing rule and the strided positions, stated independently of   *)
(* the way the samplers compute them.                                      *)
(***************************************************************************)
\* ceil(a / b) for a >= 0, b >= 1: the least n with n * b >= a
CeilOf(a, b) == CHOOSE n \in 0..a : n * b >= a /\ \A m \in 0..(n - 1) : m * b < a

\* ceil(length / (maxPoints / 2)) = ceil(2 * length / maxPoints)
RuleBucketSize == CeilOf(2 * Len(data), maxPoints)

\* the buckets of the rule, numbered from 0
RuleBuckets == {k \in 0..(Len(data) - 1) : k * RuleBucketSize < Len(data)}

\* the indices [k * bucketSize, min((k + 1) * bucketSize, length)) of bucket k
RuleIds(k) ==
    {j \in 0..(Len(data) - 1) :
        k * RuleBucketSize <= j /\ j < (k + 1) * RuleBucketSize}

RuleMin(k) ==
    CHOOSE m \in {Coerce(data[j + 1]) : j \in RuleIds(k)} :
        \A j \in RuleIds(k) : m <= Coerce(data[j + 1])

RuleMax(k) ==
    CHOOSE m \in {Coerce(data[j + 1]) : j \in RuleIds(k)} :
        \A j \in RuleIds(k) : m >= Coerce(data[j + 1])

\* the lowest index of bucket k whose value is val
FirstWith(k, val) ==
    CHOOSE j \in RuleIds(k) :
        /\ Coerce(data[j + 1]) = val
        /\ \A m \in RuleIds(k) : Coerce(data[m + 1]) = val => j <= m

\* the part of the output that comes from bucket k
OutputOf(k) == SelectSeq(result, LAMBDA p : p.id \in RuleIds(k))

\* a finished call of minMaxSample that had to sample, with maxPoints >= 1
Sampled ==
    /\ fn = "minMaxSample"
    /\ pc = "done"
    /\ maxPoints >= 1
    /\ Len(data) > maxPoints

\* C1: extremum preservation.  After minMaxSample has sampled a series
\* longer than maxPoints >= 1, the output holds, for every bucket of the
\* rule, an unmodified point of that bucket whose coerced value is the
\* bucket's minimum and one whose coerced value is the bucket's maximum.
ExtremumPreservation ==
    Sampled =>
        \A k \in RuleBuckets :
            /\ \E r \in 1..Len(result) :
                  /\ result[r].id \in RuleIds(k)
                  /\ result[r] = data[result[r].id + 1]
                  /\ Coerce(result[r]) = RuleMin(k)
            /\ \E r \in 1..Len(result) :
                  /\ result[r].id \in RuleIds(k)
                  /\ result[r] = data[result[r].id + 1]
                  /\ Coerce(result[r]) = RuleMax(k)

\* a bucket of three points or more lost a point, and its minimum is a
\* point whose value is not a number (compared as 0)
ExtremumWitness ==
    /\ Sampled
    /\ \E k \in RuleBuckets :
          /\ Cardinality(RuleIds(k)) >= 3
          /\ Len(OutputOf(k)) = 2
          /\ RuleMin(k) = 0
          /\ RuleMax(k) = 2
          /\ \E r \in 1..Len(result) :
                /\ result[r].id \in RuleIds(k)
                /\ result[r].v.kind # "num"

\* C2: identity below the threshold.  A finished call of either sampler
\* on a series no longer than maxPoints returns the series itself, and a
\* call on the empty series returns the empty series.
IdentityBelowThreshold ==
    pc = "done" =>
        /\ Len(data) <= maxPoints => result = data
        /\ Len(data) = 0 => result = <<>>

IdentityWitness ==
    /\ pc = "done"
    /\ fn = "minMaxSample"
    /\ Len(data) >= 3
    /\ Len(data) = maxPoints
    /\ result = data

\* C3: order preservation, no fabrication.  At every point of a call of
\* minMaxSample the output is made of input points, each at most once, in
\* strictly increasing order of their original index.
OrderPreservation ==
    fn = "minMaxSample" =>
        /\ \A r \in 1..Len(result) :
              /\ result[r].id \in 0..(Len(data) - 1)
              /\ result[r] = data[result[r].id + 1]
        /\ \A r, s \in 1..Len(result) : r < s => result[r].id < result[s].id

\* the maximum of a bucket comes before its minimum and is emitted first
OrderWitness ==
    /\ Sampled
    /\ Len(result) >= 3
    /\ Len(result) < Len(data)
    /\ \E r \in 1..(Len(result) - 1), k \in RuleBuckets :
          /\ result[r].id \in RuleIds(k)
          /\ result[r + 1].id \in RuleIds(k)
          /\ Coerce(result[r]) > Coerce(result[r + 1])

\* the call of the documented scenario, finished
ScenarioCall ==
    /\ fn = "minMaxSample"
    /\ pc = "done"
    /\ data = ScenarioSeries
    /\ maxPoints = 2

\* C4 as stated: the scenario call partitions the series into buckets of
\* size 2 and returns all four points in their original order.
ScenarioAllFour ==
    ScenarioCall => bucketSize = 2 /\ result = ScenarioSeries

\* C4 as amended: the scenario call uses a single bucket of size 4 and
\* returns the maximum {t:1,v:9} followed by the minimum {t:3,v:0}.
ScenarioOneBucket ==
    ScenarioCall =>
        /\ bucketSize = 4
        /\ result = <<[id |-> 1, v |-> Num(9)], [id |-> 3, v |-> Num(0)]>>

ScenarioWitness == ScenarioCall /\ Len(result) = 2

\* C5: a finished call of minMaxSample with maxPoints >= 1 returns at most
\* maxPoints points.
MinMaxAtMostMaxPoints ==
    (fn = "minMaxSample" /\ pc = "done" /\ maxPoints >= 1) =>
        Len(result) <= maxPoints

\* C6: bucket partition and per-bucket bound.  While minMaxSample samples
\* a series longer than maxPoints >= 1, its bucket size is that of the
\* rule, the loop index stands at the start of a bucket of the rule (or
\* past the end), every bucket before the index has put 1 or 2 points into
\* the output and no later bucket any; at the end every bucket has been
\* processed and the output has at most 2 * ceil(length / bucketSize)
\* points.
BucketPartition ==
    (/\ fn = "minMaxSample"
     /\ pc \in {"test", "body", "done"}
     /\ maxPoints >= 1
     /\ Len(data) > maxPoints) =>
        /\ bucketSize = RuleBucketSize
        /\ \E k \in 0..Len(data) : i = k * RuleBucketSize
        /\ \A k \in RuleBuckets :
              IF k * RuleBucketSize < i
              THEN Len(OutputOf(k)) \in 1..2
              ELSE Len(OutputOf(k)) = 0
        /\ \A r \in 1..Len(result) : \E k \in RuleBuckets : result[r].id \in RuleIds(k)
        /\ pc = "done" =>
              /\ i >= Len(data)
              /\ Len(result) <= 2 * CeilOf(Len(data), RuleBucketSize)
              /\ Cardinality(RuleBuckets) = CeilOf(Len(data), RuleBucketSize)

\* two buckets, the last one shorter, one giving two points and one a
\* single point
PartitionWitness ==
    /\ Sampled
    /\ Cardinality(RuleBuckets) = 2
    /\ Cardinality(RuleIds(0)) = 3
    /\ Cardinality(RuleIds(1)) = 2
    /\ Len(OutputOf(0)) = 2
    /\ Len(OutputOf(1)) = 1

\* C7: emission order and tie-break.  After minMaxSample has sampled, the
\* output of every bucket is the lowest-index point with the bucket's
\* minimum and the lowest-index point with the bucket's maximum, the one
\* with the smaller index first, and once only when they are one point.
EmissionOrder ==
    Sampled =>
        \A k \in RuleBuckets :
            LET lo == FirstWith(k, RuleMin(k))
                hi == FirstWith(k, RuleMax(k))
            IN  OutputOf(k) =
                    IF lo = hi THEN <<data[lo + 1]>>
                    ELSE IF lo < hi THEN <<data[lo + 1], data[hi + 1]>>
                    ELSE <<data[hi + 1], data[lo + 1]>>

\* a bucket whose maximum is attained twice and comes before its minimum,
\* next to a bucket of two equal values, emitted once
EmissionWitness ==
    /\ Sampled
    /\ \E k \in RuleBuckets :
          /\ Cardinality({j \in RuleIds(k) : Coerce(data[j + 1]) = RuleMax(k)}) >= 2
          /\ FirstWith(k, RuleMax(k)) < FirstWith(k, RuleMin(k))
          /\ Len(OutputOf(k)) = 2
    /\ \E k \in RuleBuckets :
          /\ Cardinality(RuleIds(k)) = 2
          /\ RuleMin(k) = RuleMax(k)
          /\ Len(OutputOf(k)) = 1

\* the input points at positions 0, step, 2 * step, ... with
\* step = ceil(length / maxPoints)
Strided ==
    LET st == CeilOf(Len(data), maxPoints)
        n == CeilOf(Len(data), st)
    IN  [k \in 1..n |-> data[(k - 1) * st + 1]]

\* C8: last-point guarantee.  A finished call of evenSample on a
\* non-empty series with maxPoints >= 1 returns the strided points,
\* possibly followed by the appended last point; its first element is the
\* first input point and its last element the last input point.
LastPointGuarantee ==
    (fn = "evenSample" /\ pc = "done" /\ Len(data) >= 1 /\ maxPoints >= 1) =>
        /\ Len(result) >= 1
        /\ result[1] = data[1]
        /\ result[Len(result)] = data[Len(data)]
        /\ \/ result = Strided
           \/ result = Append(Strided, data[Len(data)])

\* the stride skips the last point, which is appended
LastPointWitness ==
    /\ fn = "evenSample"
    /\ pc = "done"
    /\ maxPoints >= 2
    /\ Len(data) > maxPoints
    /\ Len(Strided) >= 2
    /\ result = Append(Strided, data[Len(data)])
    /\ Strided[Len(Strided)] # data[Len(data)]

\* C9: a finished call of evenSample with maxPoints >= 1 returns at most
\* maxPoints points.
EvenAtMostMaxPoints ==
    (fn = "evenSample" /\ pc = "done" /\ maxPoints >= 1) =>
        Len(result) <= maxPoints

\* C10: termination without error.  Every call of either sampler, for
\* every series and every integer maxPoints, eventually returns.
Terminates == <>(pc = "done")

(***************************************************************************)
(* The other pure functions.  A call is one step: the function is applied  *)
(* to the arguments and the value it returns is kept in uret.  An optional *)
(* argument is a sequence: <<>> when it is absent, <<x>> when it is x.     *)
(***************************************************************************)
\* no call of a sampler is under way
SamplerIdle ==
    /\ fn = "none"
    /\ data = <<>>
    /\ maxPoints = 0
    /\ pc = "idle"
    /\ i = 0
    /\ bucketSize = 0
    /\ step = 0
    /\ result = <<>>

\* the arguments next to a threshold range from the threshold minus
\* GuardMargin to the threshold plus GuardMargin
GuardMargin == 3

(***************************************************************************)
(* checkRenderingLimits (src/TESTING.md)                                   *)
(***************************************************************************)
MAX_CHART_POINTS == 500

MAX_CATEGORIES == 12

\* `Too many data points (${dataLength}) for chart rendering`
PointsReason(n) ==
    [text |-> "Too many data points (N) for chart rendering", n |-> n]

\* `Too many categories (${categoryCount}) for readable chart`
CategoriesReason(n) ==
    [text |-> "Too many categories (N) for readable chart", n |-> n]

\* ExceedsPoints with >= in the place of >
ExceedsPointsGe(dataLength) == dataLength >= MAX_CHART_POINTS * 2

\* dataLength > MAX_CHART_POINTS * 2
ExceedsPoints(dataLength) == dataLength > MAX_CHART_POINTS * 2

\* categoryCount && categoryCount > MAX_CATEGORIES: undefined and 0 are falsy
ExceedsCategories(categoryCount) ==
    /\ categoryCount # <<>>
    /\ categoryCount[1] # 0
    /\ categoryCount[1] > MAX_CATEGORIES

CheckRenderingLimits(dataLength, categoryCount) ==
    IF ExceedsPoints(dataLength)
    THEN [needsFallback |-> TRUE, reason |-> <<PointsReason(dataLength)>>]
    ELSE IF ExceedsCategories(categoryCount)
    THEN [needsFallback |-> TRUE,
          reason |-> <<CategoriesReason(categoryCount[1])>>]
    ELSE [needsFallback |-> FALSE, reason |-> <<>>]

GuardArgs ==
    [dataLength :
        {0, 1, 1200} \cup
        ((2 * MAX_CHART_POINTS - GuardMargin)..(2 * MAX_CHART_POINTS + GuardMargin)),
     categoryCount :
        {<<>>} \cup {<<c>> : c \in 0..(MAX_CATEGORIES + GuardMargin)}]

CallCheckRenderingLimits ==
    /\ upc = "call"
    /\ ufn = "checkRenderingLimits"
    /\ uret' = CheckRenderingLimits(uargs.dataLength, uargs.categoryCount)
    /\ upc' = "returned"
    /\ UNCHANGED <<ufn, uargs>>
    /\ UNCHANGED nonUtilVars

(***************************************************************************)
(* calculateTickInterval (src/src/lib/axis-formatter.ts)                   *)
(***************************************************************************)
\* largest dataLength and largest maxTicks of a call
MaxDataLength == 24
MaxTickArg == 10

\* TickInterval with Math.floor in the place of Math.ceil
TickIntervalFloor(dataLength, maxTicks) ==
    IF dataLength <= maxTicks THEN 0
    ELSE FloorDiv(dataLength, maxTicks) - 1

TickInterval(dataLength, maxTicks) ==
    IF dataLength <= maxTicks THEN 0
    ELSE CeilDiv(dataLength, maxTicks) - 1

TickIntervalArgs ==
    [dataLength : 0..MaxDataLength, maxTicks : 1..MaxTickArg]

CallCalculateTickInterval ==
    /\ upc = "call"
    /\ ufn = "calculateTickInterval"
    /\ uret' = TickInterval(uargs.dataLength, uargs.maxTicks)
    /\ upc' = "returned"
    /\ UNCHANGED <<ufn, uargs>>
    /\ UNCHANGED nonUtilVars

(***************************************************************************)
(* truncateLabel (src/src/lib/axis-formatter.ts).  A string is the         *)
(* sequence of its UTF-16 code units.                                      *)
(***************************************************************************)
\* longest label drawn from the alphabet, and largest small maxLength
MaxLabelLen == 4
MaxLengthArg == 4

\* the string literal appended at line 120 of the source file: the three
\* characters U+00E2, U+20AC, U+00A6
EllipsisLiteral == <<226, 8364, 166>>

\* "a", "b"
LabelAlphabet == {97, 98}

\* "Engineering Department"
EngineeringDepartment == <<69, 110, 103, 105, 110, 101, 101, 114, 105, 110, 103, 32, 68, 101, 112, 97, 114, 116, 109, 101, 110, 116>>

\* the default of maxLength
DefaultMaxLength == 12

\* !label holds of an absent label and of the empty string
TruncateLabel(label, maxLength) ==
    IF label = <<>> \/ label[1] = <<>> THEN <<>>
    ELSE LET str == label[1]
         IN  IF Len(str) <= maxLength THEN str
             ELSE Slice(str, 0, maxLength - 1) \o EllipsisLiteral

TruncateArgs ==
    [label :
        {<<>>, <<EngineeringDepartment>>} \cup
        {<<str>> : str \in UNION {[1..n -> LabelAlphabet] : n \in 0..MaxLabelLen}},
     maxLength : (1..MaxLengthArg) \cup {DefaultMaxLength}]

CallTruncateLabel ==
    /\ upc = "call"
    /\ ufn = "truncateLabel"
    /\ uret' = TruncateLabel(uargs.label, uargs.maxLength)
    /\ upc' = "returned"
    /\ UNCHANGED <<ufn, uargs>>
    /\ UNCHANGED nonUtilVars

(***************************************************************************)
(* Natural numbers of any size.  The values calculateTicks computes need   *)
(* more bits than an integer of the model checker has, so a natural number *)
(* is kept as the sequence of its digits in base 2^15, the least           *)
(* significant first, without leading zero digits; <<>> is 0.              *)
(***************************************************************************)
LimbBits == 15

LimbBase == 2^LimbBits

RECURSIVE BStrip(_)
BStrip(a) ==
    IF a = <<>> THEN <<>>
    ELSE IF a[Len(a)] = 0 THEN BStrip(SubSeq(a, 1, Len(a) - 1))
    ELSE a

RECURSIVE BFromNat(_)
BFromNat(n) ==
    IF n = 0 THEN <<>> ELSE <<n % LimbBase>> \o BFromNat(n \div LimbBase)

\* the value of a number known to be small
RECURSIVE BToNat(_)
BToNat(a) ==
    IF a = <<>> THEN 0 ELSE a[1] + LimbBase * BToNat(Tail(a))

BLimb(a, k) == IF k <= Len(a) THEN a[k] ELSE 0

RECURSIVE BAddFrom(_, _, _, _)
BAddFrom(a, b, k, carry) ==
    IF k > Len(a) /\ k > Len(b)
    THEN (IF carry = 0 THEN <<>> ELSE <<carry>>)
    ELSE LET t == BLimb(a, k) + BLimb(b, k) + carry
         IN  <<t % LimbBase>> \o BAddFrom(a, b, k + 1, t \div LimbBase)

BAdd(a, b) == BAddFrom(a, b, 1, 0)

RECURSIVE BSubFrom(_, _, _, _)
BSubFrom(a, b, k, borrow) ==
    IF k > Len(a) THEN <<>>
    ELSE LET t == BLimb(a, k) - BLimb(b, k) - borrow
         IN  IF t < 0
             THEN <<t + LimbBase>> \o BSubFrom(a, b, k + 1, 1)
             ELSE <<t>> \o BSubFrom(a, b, k + 1, 0)

\* a - b, for a >= b
BSub(a, b) == BStrip(BSubFrom(a, b, 1, 0))

RECURSIVE BCmpFrom(_, _, _)
BCmpFrom(a, b, k) ==
    IF k = 0 THEN 0
    ELSE IF a[k] < b[k] THEN -1
    ELSE IF a[k] > b[k] THEN 1
    ELSE BCmpFrom(a, b, k - 1)

\* -1, 0, 1 as a < b, a = b, a > b
BCmp(a, b) ==
    IF Len(a) < Len(b) THEN -1
    ELSE IF Len(a) > Len(b) THEN 1
    ELSE BCmpFrom(a, b, Len(a))

RECURSIVE BMulFrom(_, _, _, _)
BMulFrom(a, n, k, carry) ==
    IF k > Len(a) THEN BFromNat(carry)
    ELSE LET t == a[k] * n + carry
         IN  <<t % LimbBase>> \o BMulFrom(a, n, k + 1, t \div LimbBase)

\* a * n, for 0 <= n <= 2^15
BMulSmall(a, n) == BStrip(BMulFrom(a, n, 1, 0))

\* a * 2^n
BShl(a, n) ==
    IF a = <<>> THEN <<>>
    ELSE [k \in 1..(n \div LimbBits) |-> 0] \o BMulSmall(a, 2^(n % LimbBits))

\* floor(a / 2^n)
BShr(a, n) ==
    LET drop == n \div LimbBits
        r == n % LimbBits
        rest == IF drop >= Len(a) THEN <<>> ELSE SubSeq(a, drop + 1, Len(a))
    IN  BStrip([k \in 1..Len(rest) |->
                   (rest[k] \div 2^r) + (BLimb(rest, k + 1) % 2^r) * 2^(LimbBits - r)])

\* a mod 2^n = 0
BLowZero(a, n) == BShl(BShr(a, n), n) = a

RECURSIVE NatBitLen(_)
NatBitLen(n) == IF n = 0 THEN 0 ELSE 1 + NatBitLen(n \div 2)

\* the number of bits of a
BBitLen(a) ==
    IF a = <<>> THEN 0
    ELSE LimbBits * (Len(a) - 1) + NatBitLen(a[Len(a)])

\* bit n of a, bit 0 being the least significant
BBit(a, n) == (BLimb(a, (n \div LimbBits) + 1) \div 2^(n % LimbBits)) % 2

\* floor(r / b) for r < b * 2^15 and a divisor whose leading digit is at
\* least 2^14: the quotient of the leading digits is the digit or exceeds
\* it by at most two
BDivDigit(r, b) ==
    LET n == Len(b)
        top == BLimb(r, n + 1) * LimbBase + BLimb(r, n)
        est == top \div b[n]
        qhat == IF est >= LimbBase THEN LimbBase - 1 ELSE est
    IN  IF BCmp(BMulSmall(b, qhat), r) <= 0 THEN qhat
        ELSE IF BCmp(BMulSmall(b, qhat - 1), r) <= 0 THEN qhat - 1
        ELSE qhat - 2

\* long division, one digit of a at a time: quotient and remainder of the
\* digits of a from digit k up
RECURSIVE BDivFrom(_, _, _)
BDivFrom(a, b, k) ==
    IF k > Len(a) THEN [quot |-> <<>>, rem |-> <<>>]
    ELSE LET high == BDivFrom(a, b, k + 1)
         IN  IF high.rem = <<>> /\ a[k] = 0
             THEN [quot |-> BStrip(<<0>> \o high.quot), rem |-> <<>>]
             ELSE LET r == BStrip(<<a[k]>> \o high.rem)
                      d == BDivDigit(r, b)
                  IN  [quot |-> BStrip(<<d>> \o high.quot),
                       rem |-> BSub(r, BMulSmall(b, d))]

\* floor(a / b) and a mod b, for b > 0
BDivMod(a, b) ==
    LET s == LimbBits - NatBitLen(b[Len(b)])
        d == BDivFrom(BShl(a, s), BShl(b, s), 1)
    IN  [quot |-> d.quot, rem |-> BShr(d.rem, s)]

(***************************************************************************)
(* Numbers of the tick planner.  A number of the language is a double: 53  *)
(* significant bits, every result rounded to the nearest double, ties to   *)
(* the even one.  The doubles met here are 0 or at least 1/256 in          *)
(* magnitude, hence multiples of 2^-60, so a double is a sign and a        *)
(* magnitude counted in units of 2^-60.                                    *)
(***************************************************************************)
MantissaBits == 52 + 1

FracBits == MantissaBits + 7

GuardBits == 4

DZero == [neg |-> FALSE, mag |-> <<>>]

DFromInt(n) ==
    [neg |-> n < 0,
     mag |-> BShl(BFromNat(IF n < 0 THEN -n ELSE n), FracBits)]

\* the nearest magnitude of at most 53 significant bits, ties to even;
\* sticky says the exact value lies strictly above mag
DRoundMag(mag, sticky) ==
    LET s == BBitLen(mag) - MantissaBits
    IN  IF s <= 0 THEN mag
        ELSE LET q == BShr(mag, s)
                 c == BCmp(BSub(mag, BShl(q, s)), BShl(<<1>>, s - 1))
                 up == c > 0 \/ (c = 0 /\ (sticky \/ BBit(q, 0) = 1))
             IN  BShl(IF up THEN BAdd(q, <<1>>) ELSE q, s)

DCmp(x, y) ==
    IF x.neg /\ ~y.neg THEN (IF x.mag = <<>> /\ y.mag = <<>> THEN 0 ELSE -1)
    ELSE IF ~x.neg /\ y.neg THEN (IF x.mag = <<>> /\ y.mag = <<>> THEN 0 ELSE 1)
    ELSE IF x.neg THEN BCmp(y.mag, x.mag)
    ELSE BCmp(x.mag, y.mag)

DLe(x, y) == DCmp(x, y) <= 0

\* x + y, exactly
SAdd(x, y) ==
    IF x.neg = y.neg
    THEN [neg |-> x.neg, mag |-> BAdd(x.mag, y.mag)]
    ELSE LET c == BCmp(x.mag, y.mag)
         IN  IF c = 0 THEN DZero
             ELSE IF c > 0
             THEN [neg |-> x.neg, mag |-> BSub(x.mag, y.mag)]
             ELSE [neg |-> y.neg, mag |-> BSub(y.mag, x.mag)]

\* x + y
DAdd(x, y) ==
    LET e == SAdd(x, y)
    IN  [neg |-> e.neg, mag |-> DRoundMag(e.mag, FALSE)]

\* the integer an integral double of magnitude below 2^15 stands for
DToInt(x) ==
    LET n == BToNat(BShr(x.mag, FracBits))
    IN  IF x.neg THEN -n ELSE n

\* k * x, one factor being an integer of magnitude at most 2^15
DTimes(k, x) ==
    LET m == DRoundMag(BMulSmall(x.mag, IF k < 0 THEN -k ELSE k), FALSE)
    IN  [neg |-> (k < 0) # x.neg /\ m # <<>>, mag |-> m]

\* x / y, for y # 0 and a quotient that is 0 or at least 1/256
DDiv(x, y) ==
    LET d == BDivMod(BShl(x.mag, FracBits + GuardBits), y.mag)
        m == BShr(DRoundMag(d.quot, d.rem # <<>>), GuardBits)
    IN  [neg |-> x.neg # y.neg /\ m # <<>>, mag |-> m]

\* Math.floor
DFloor(x) ==
    LET ip == BShr(x.mag, FracBits)
    IN  IF ~x.neg \/ BLowZero(x.mag, FracBits)
        THEN [neg |-> x.neg /\ ip # <<>>, mag |-> BShl(ip, FracBits)]
        ELSE [neg |-> TRUE, mag |-> BShl(BAdd(ip, <<1>>), FracBits)]

\* 10^k <= x, for x > 0, decided exactly
GePow10(x, k) ==
    IF k >= 0
    THEN DCmp(x, DFromInt(10^k)) >= 0
    ELSE BCmp(BMulSmall(x.mag, 10^(-k)), BShl(<<1>>, FracBits)) >= 0

Exponents == -2..4

\* Math.floor(Math.log10(x)), for x > 0 within the exponents above.  No
\* double met here lies so closely below a power of ten that the rounding
\* of the logarithm reaches the power.
Log10Floor(x) ==
    CHOOSE k \in Exponents : GePow10(x, k) /\ ~GePow10(x, k + 1)

\* Math.pow(10, k)
Pow10(k) ==
    IF k >= 0 THEN DFromInt(10^k)
    ELSE DDiv(DFromInt(1), DFromInt(10^(-k)))

(***************************************************************************)
(* calculateTicks(data, maxTicks)                                          *)
(***************************************************************************)
RECURSIVE SeqMin(_)
SeqMin(s) ==
    IF Len(s) = 1 THEN s[1]
    ELSE LET m == SeqMin(Tail(s)) IN IF s[1] < m THEN s[1] ELSE m

RECURSIVE SeqMax(_)
SeqMax(s) ==
    IF Len(s) = 1 THEN s[1]
    ELSE LET m == SeqMax(Tail(s)) IN IF s[1] > m THEN s[1] ELSE m

RoughStep(range, maxTicks) == DDiv(DFromInt(range), DFromInt(maxTicks))

NiceStep(roughStep) ==
    LET magnitude == Pow10(Log10Floor(roughStep))
        normalized == DDiv(roughStep, magnitude)
    IN  IF DLe(normalized, DFromInt(1)) THEN magnitude
        ELSE IF DLe(normalized, DFromInt(2)) THEN DTimes(2, magnitude)
        ELSE IF DLe(normalized, DFromInt(5)) THEN DTimes(5, magnitude)
        ELSE DTimes(10, magnitude)

TickStart(min, niceStep) ==
    DTimes(DToInt(DFloor(DDiv(DFromInt(min), niceStep))), niceStep)

PushesAlways(tick, min) == TRUE

\* tick >= min
Pushes(tick, min) == DLe(DFromInt(min), tick)

\* the loop, from the test of its condition on
RECURSIVE TickLoop(_, _, _, _, _, _)
TickLoop(tick, ticks, min, max, niceStep, maxTicks) ==
    IF ~DLe(tick, DFromInt(max)) THEN ticks
    ELSE LET pushed == IF Pushes(tick, min)
                       THEN Append(ticks, tick) ELSE ticks
         IN  IF Len(pushed) >= maxTicks THEN pushed
             ELSE TickLoop(DAdd(tick, niceStep), pushed,
                           min, max, niceStep, maxTicks)

DegenerateTicksNone(min) == <<>>

\* return [min]
DegenerateTicks(min) == <<DFromInt(min)>>

CalculateTicks(d, maxTicks) ==
    IF d = <<>> THEN <<>>
    ELSE LET min == SeqMin(d)
             max == SeqMax(d)
             range == max - min
         IN  IF range = 0 THEN DegenerateTicks(min)
             ELSE LET niceStep == NiceStep(RoughStep(range, maxTicks))
                  IN  TickLoop(TickStart(min, niceStep), <<>>,
                               min, max, niceStep, maxTicks)

\* the values of a data array lie in -TickSpan .. TickSpan + 2
TickSpan == 2

\* largest length of a data array
MaxTickData == 2

TickValues == (-TickSpan)..(TickSpan + 2)

\* the arrays of the scenario of the tick planner and of a range that is
\* ten steps long
TickScenarios == {<<0, 97>>, <<0, 100>>}

TickData ==
    UNION {[1..n -> TickValues] : n \in 0..MaxTickData} \cup TickScenarios

DegenerateData == {d \in TickData : d = <<>> \/ SeqMax(d) = SeqMin(d)}

\* maxTicks is at least 1, except that it is also 0 and -1 with the arrays
\* for which it is never read
TickArgs ==
    [data : TickData, maxTicks : 1..MaxTickArg]
        \cup [data : DegenerateData, maxTicks : {-1, 0}]

CallCalculateTicks ==
    /\ upc = "call"
    /\ ufn = "calculateTicks"
    /\ uret' = CalculateTicks(uargs.data, uargs.maxTicks)
    /\ upc' = "returned"
    /\ UNCHANGED <<ufn, uargs>>
    /\ UNCHANGED nonUtilVars

(***************************************************************************)
(* formatCompactNumber (src/src/lib/axis-formatter.ts).  A string is the   *)
(* sequence of its characters.  The value is null, undefined, NaN or a     *)
(* double; decimals is <<>> when the argument is left out.                 *)
(***************************************************************************)
\* largest decimals of a call
MaxDecimals == 2

DefaultDecimals == 1

DigitChars == <<"0", "1", "2", "3", "4", "5", "6", "7", "8", "9">>

RECURSIVE NatDigits(_)
NatDigits(n) ==
    IF n < 10 THEN <<DigitChars[n + 1]>>
    ELSE NatDigits(n \div 10) \o <<DigitChars[(n % 10) + 1]>>

\* the decimal string of n / 10^f with f digits after the point
FixedString(n, f) ==
    LET ds == NatDigits(n)
        padded == [k \in 1..(f + 1 - Len(ds)) |-> "0"] \o ds
    IN  IF f = 0 THEN ds
        ELSE SubSeq(padded, 1, Len(padded) - f) \o <<".">>
                 \o SubSeq(padded, Len(padded) - f + 1, Len(padded))

\* x.toFixed(f) for a double 0 <= x < 2^31 / 10^f: the integer n nearest to
\* x * 10^f, the larger one of two, written with f decimals
ToFixed(x, f) ==
    LET scaled == BMulSmall(x.mag, 10^f)
        q == BShr(scaled, FracBits)
        rem == BSub(scaled, BShl(q, FracBits))
        up == BCmp(rem, BShl(<<1>>, FracBits - 1)) >= 0
    IN  FixedString(BToNat(q) + (IF up THEN 1 ELSE 0), f)

IntegralDecimalsKept(absValue, decimals) == decimals

\* absValue % 1 === 0 ? 0 : decimals
IntegralDecimals(absValue, decimals) ==
    IF BLowZero(absValue.mag, FracBits) THEN 0 ELSE decimals

FormatCompactNumber(value, decimalsArg) ==
    IF value.kind # "number" THEN <<"0">>
    ELSE LET decimals == IF decimalsArg = <<>> THEN DefaultDecimals
                         ELSE decimalsArg[1]
             absValue == [neg |-> FALSE, mag |-> value.num.mag]
             sign == IF DCmp(value.num, DZero) < 0 THEN <<"-">> ELSE <<>>
         IN  IF DCmp(absValue, DFromInt(10^9)) >= 0
             THEN sign \o ToFixed(DDiv(absValue, DFromInt(10^9)), decimals)
                      \o <<"B">>
             ELSE IF DCmp(absValue, DFromInt(10^6)) >= 0
             THEN sign \o ToFixed(DDiv(absValue, DFromInt(10^6)), decimals)
                      \o <<"M">>
             ELSE IF DCmp(absValue, DFromInt(10^3)) >= 0
             THEN sign \o ToFixed(DDiv(absValue, DFromInt(10^3)), decimals)
                      \o <<"K">>
             ELSE IF DCmp(absValue, DFromInt(1)) >= 0
             THEN sign \o ToFixed(absValue,
                                  IntegralDecimals(absValue, decimals))
             ELSE IF DCmp(absValue, DZero) > 0
             THEN sign \o ToFixed(absValue, decimals)
             ELSE <<"0">>

\* the numbers of the calls are the quotients n / d and -n / d
CompactNumerators ==
    {0, 1, 5, 12, 45, 999, 1000, 1234, 5000, 99996, 999949, 999999,
     1000000, 1234567, 1450000, 999999999, 1000000000, 1234567890}

CompactDenominators == {1, 4, 100}

CompactNumbers ==
    {DDiv(DFromInt(n), DFromInt(d)) :
        n \in CompactNumerators \cup {-m : m \in CompactNumerators},
        d \in CompactDenominators}

CompactValues ==
    {[kind |-> k, num |-> DZero] : k \in {"null", "undefined", "NaN"}}
        \cup {[kind |-> "number", num |-> x] : x \in CompactNumbers}

CompactArgs ==
    [value : CompactValues,
     decimals : {<<>>} \cup {<<f>> : f \in 0..MaxDecimals}]

CallFormatCompactNumber ==
    /\ upc = "call"
    /\ ufn = "formatCompactNumber"
    /\ uret' = FormatCompactNumber(uargs.value, uargs.decimals)
    /\ upc' = "returned"
    /\ UNCHANGED <<ufn, uargs>>
    /\ UNCHANGED nonUtilVars

(***************************************************************************)
(* Specification of the calls of the other pure functions                  *)
(***************************************************************************)
UtilInit ==
    /\ SamplerIdle
    /\ CardIdle
    /\ AppIdle
    /\ upc = "call"
    /\ uret = <<>>
    /\ \/ ufn = "checkRenderingLimits" /\ uargs \in GuardArgs
       \/ ufn = "calculateTickInterval" /\ uargs \in TickIntervalArgs
       \/ ufn = "truncateLabel" /\ uargs \in TruncateArgs
       \/ ufn = "calculateTicks" /\ uargs \in TickArgs
       \/ ufn = "formatCompactNumber" /\ uargs \in CompactArgs

UtilNext ==
    \/ CallCheckRenderingLimits
    \/ CallCalculateTickInterval
    \/ CallTruncateLabel
    \/ CallCalculateTicks
    \/ CallFormatCompactNumber

UtilSpec == UtilInit /\ [][UtilNext]_vars

\* C11: rendering-limit decision table.  checkRenderingLimits returns
\* needsFallback exactly when pointCount > 1000, or categoryCount is given
\* and > 12; the reason names the point count when pointCount > 1000 and
\* the category count when only the categories exceed; a reason is present
\* exactly when needsFallback is true; the outcome is a returned value.
GuardDecisionTable ==
    (ufn = "checkRenderingLimits" /\ upc = "returned") =>
        LET n == uargs.dataLength
            c == uargs.categoryCount
            points == n > 1000
            cats == c # <<>> /\ c[1] > 12
        IN  /\ uret.needsFallback = (points \/ cats)
            /\ points =>
                  uret.reason =
                      <<[text |-> "Too many data points (N) for chart rendering",
                         n |-> n]>>
            /\ (~points /\ cats) =>
                  uret.reason =
                      <<[text |-> "Too many categories (N) for readable chart",
                         n |-> c[1]]>>
            /\ (uret.reason # <<>>) = uret.needsFallback

\* both limits are exceeded and the reason names the points
GuardWitness ==
    /\ ufn = "checkRenderingLimits"
    /\ upc = "returned"
    /\ uargs.dataLength = 1001
    /\ uargs.categoryCount = <<13>>
    /\ uret.needsFallback
    /\ uret.reason[1].n = 1001

\* C16: tick interval.  calculateTickInterval returns 0 when
\* dataLength <= maxTicks and ceil(dataLength / maxTicks) - 1 otherwise,
\* and one label out of every interval + 1 is at most maxTicks labels.
TickIntervalBound ==
    (ufn = "calculateTickInterval" /\ upc = "returned") =>
        LET n == uargs.dataLength
            mt == uargs.maxTicks
        IN  /\ uret = IF n <= mt THEN 0 ELSE CeilOf(n, mt) - 1
            /\ CeilOf(n, uret + 1) <= mt

TickIntervalWitness ==
    /\ ufn = "calculateTickInterval"
    /\ upc = "returned"
    /\ uargs.dataLength = 23
    /\ uargs.maxTicks = 10
    /\ uret = 2

\* C17: truncate label.  truncateLabel returns the empty string for an
\* absent or empty label, the label itself when it has at most maxLength
\* characters, and otherwise its first maxLength - 1 characters followed by
\* the single character U+2026, so never more than maxLength characters.
TruncateSingleEllipsis ==
    (ufn = "truncateLabel" /\ upc = "returned") =>
        LET s == IF uargs.label = <<>> THEN <<>> ELSE uargs.label[1]
            m == uargs.maxLength
        IN  /\ uret = IF Len(s) <= m THEN s
                      ELSE SubSeq(s, 1, m - 1) \o <<8230>>
            /\ Len(uret) <= m

(***************************************************************************)
(* The tick planner: what a call of calculateTicks was given, and the step *)
(* of the rule, a power of ten times 1, 2 or 5, as the fraction num / den  *)
(* of two integers.                                                        *)
(***************************************************************************)
TicksReturned == ufn = "calculateTicks" /\ upc = "returned"

TickMin == SeqMin(uargs.data)

TickMax == SeqMax(uargs.data)

NonDegenerate ==
    /\ uargs.data # <<>>
    /\ TickMax > TickMin
    /\ uargs.maxTicks >= 1

\* 10^e <= c * range / maxTicks
PowerBelow(e, c, range, maxTicks) ==
    IF e >= 0 THEN 10^e * maxTicks <= c * range
    ELSE maxTicks <= c * range * 10^(-e)

\* floor(log10(range / maxTicks))
RuleExponent(range, maxTicks) ==
    CHOOSE e \in Exponents :
        PowerBelow(e, 1, range, maxTicks) /\ ~PowerBelow(e + 1, 1, range, maxTicks)

\* normalized <= c, that is range / maxTicks <= c * 10^e
NormalizedAtMost(c, e, range, maxTicks) ==
    IF e >= 0 THEN range <= c * 10^e * maxTicks
    ELSE range * 10^(-e) <= c * maxTicks

RuleMultiplier(range, maxTicks) ==
    LET e == RuleExponent(range, maxTicks)
    IN  IF NormalizedAtMost(1, e, range, maxTicks) THEN 1
        ELSE IF NormalizedAtMost(2, e, range, maxTicks) THEN 2
        ELSE IF NormalizedAtMost(5, e, range, maxTicks) THEN 5
        ELSE 10

RuleNiceStep ==
    LET range == TickMax - TickMin
        e == RuleExponent(range, uargs.maxTicks)
        m == RuleMultiplier(range, uargs.maxTicks)
    IN  IF e >= 0 THEN [num |-> m * 10^e, den |-> 1]
        ELSE [num |-> m, den |-> 10^(-e)]

\* the multiples j * niceStep that can lie in [min, max]
RuleMultiples ==
    LET st == RuleNiceStep
    IN  {j \in ((TickMin * st.den) \div st.num)
                   ..((TickMax * st.den + st.num - 1) \div st.num) :
            /\ TickMin * st.den <= j * st.num
            /\ j * st.num <= TickMax * st.den}

\* the double t is j * niceStep: the double nearest to that product
IsMultiple(t, j) ==
    LET st == RuleNiceStep
    IN  t = DDiv(DFromInt(j * st.num), DFromInt(st.den))

\* t and u are two multiples of niceStep that follow each other
IsNextTick(t, u) ==
    \E j \in RuleMultiples : IsMultiple(t, j) /\ IsMultiple(u, j + 1)

\* C12: tick bounds.  For a non-degenerate input (max > min) and
\* maxTicks >= 1, every tick calculateTicks returns satisfies
\* min <= tick <= max, and there are at most maxTicks ticks.
TickBounds ==
    (TicksReturned /\ NonDegenerate) =>
        /\ Len(uret) <= uargs.maxTicks
        /\ \A k \in 1..Len(uret) :
              /\ DLe(DFromInt(TickMin), uret[k])
              /\ DLe(uret[k], DFromInt(TickMax))

\* as many ticks as maxTicks allows, the first on min and the last on max
TickBoundsWitness ==
    /\ TicksReturned
    /\ uargs.data = <<2, 0>>
    /\ uargs.maxTicks = 3
    /\ uret = <<DFromInt(0), DFromInt(1), DFromInt(2)>>

\* C13: tick coverage up to max.  For a non-degenerate input and
\* maxTicks >= 1, every multiple of niceStep lying in [min, max] is one of
\* the returned ticks, also when max itself is a multiple of niceStep.
TickCoverage ==
    (TicksReturned /\ NonDegenerate) =>
        \A j \in RuleMultiples :
            \E k \in 1..Len(uret) : IsMultiple(uret[k], j)

\* C14: nice-step spacing.  For a non-degenerate input and maxTicks >= 1,
\* the returned ticks are strictly increasing, consecutive ticks differ by
\* exactly niceStep, every tick is an integer multiple of niceStep, niceStep
\* is the power of ten times 1, 2 or 5 that the breakpoints choose, it is at
\* least (max - min) / maxTicks, and calculateTicks([0, 97], 10) is
\* [0, 10, 20, ..., 90].
NiceStepSpacing ==
    (TicksReturned /\ NonDegenerate) =>
        LET st == RuleNiceStep
        IN  /\ \A k \in 1..(Len(uret) - 1) : DCmp(uret[k], uret[k + 1]) < 0
            /\ \A k \in 1..(Len(uret) - 1) : IsNextTick(uret[k], uret[k + 1])
            /\ \A k \in 1..Len(uret) :
                  \E j \in RuleMultiples : IsMultiple(uret[k], j)
            /\ NiceStep(RoughStep(TickMax - TickMin, uargs.maxTicks))
                   = DDiv(DFromInt(st.num), DFromInt(st.den))
            /\ st.num * uargs.maxTicks >= (TickMax - TickMin) * st.den
            /\ (uargs.data = <<0, 97>> /\ uargs.maxTicks = 10) =>
                  uret = [k \in 1..10 |-> DFromInt(10 * (k - 1))]

\* C15: degenerate tick inputs.  calculateTicks returns the empty sequence
\* for an empty input and, for a non-empty input whose values are all equal,
\* exactly one tick equal to that value, whatever maxTicks is.
DegenerateInputs ==
    TicksReturned =>
        /\ uargs.data = <<>> => uret = <<>>
        /\ (uargs.data # <<>> /\ TickMax = TickMin) =>
              uret = <<DFromInt(uargs.data[1])>>

\* two equal values and a maxTicks of 0 give the one tick
DegenerateWitness ==
    /\ TicksReturned
    /\ uargs.data = <<4, 4>>
    /\ uargs.maxTicks = 0
    /\ uret = <<DFromInt(4)>>

\* C26: non-empty tick set.  For every non-degenerate numeric input
\* (max > min) and every maxTicks >= 1, calculateTicks returns at least one
\* tick.
NonEmptyTicks ==
    (TicksReturned /\ NonDegenerate) => Len(uret) >= 1

(***************************************************************************)
(* The compact number format: the unit and the suffix the magnitude        *)
(* selects, and the integers nearest to |v| * 10^f / unit.                 *)
(***************************************************************************)
CompactReturned == ufn = "formatCompactNumber" /\ upc = "returned"

\* |v| >= n, for the double v
MagnitudeAtLeast(v, n) == BCmp(v.mag, BShl(BFromNat(n), FracBits)) >= 0

RuleUnit(v) ==
    IF MagnitudeAtLeast(v, 1000000000) THEN [unit |-> 1000000000, suffix |-> <<"B">>]
    ELSE IF MagnitudeAtLeast(v, 1000000) THEN [unit |-> 1000000, suffix |-> <<"M">>]
    ELSE IF MagnitudeAtLeast(v, 1000) THEN [unit |-> 1000, suffix |-> <<"K">>]
    ELSE [unit |-> 1, suffix |-> <<>>]

\* the integers nearest to |v| * 10^f / unit: two of them when the quotient
\* lies half way
RuleNearest(v, f, unit) ==
    LET divisor == BShl(BFromNat(unit), FracBits)
        dm == BDivMod(BMulSmall(v.mag, 10^f), divisor)
        c == BCmp(BMulSmall(dm.rem, 2), divisor)
        q == BToNat(dm.quot)
    IN  {n \in {q, q + 1} : (n = q /\ c <= 0) \/ (n = q + 1 /\ c >= 0)}

CardMargin == 1

MAX_AXIS_TICKS == 10

ChartTypes == {"line", "area", "bar", "horizontal_bar", "donut", "histogram"}

\* the chart types the renderer has a branch for
DrawnTypes == {"line", "area", "bar", "horizontal_bar", "donut"}

Around(n) == (n - CardMargin)..(n + CardMargin)

PointCounts ==
    {0, 1, 1200} \cup Around(MAX_AXIS_TICKS) \cup Around(MAX_CATEGORIES)
        \cup Around(MAX_CHART_POINTS) \cup Around(2 * MAX_CHART_POINTS)

\* fallback_reason is left out, empty or a reason
FallbackReasons == {<<>>, <<"">>, <<"Chart not eligible">>}

CardSpecs ==
    {<<>>} \cup
    {<<s>> : s \in [chart_type : ChartTypes, points : PointCounts,
                    flat : BOOLEAN, fallback_reason : FallbackReasons]}

IneligibleNever(s) == FALSE

\* if (spec.fallback_reason): the reason is there and not empty
Ineligible(s) == s.fallback_reason # <<>> /\ s.fallback_reason # <<"">>

\* the number of points minMaxSample(data, MAX_CHART_POINTS, field) returns
\* for more than MAX_CHART_POINTS points: one point of a bucket whose values
\* are all equal or that holds one point, two of any other bucket
SampleCount(n, flat) ==
    LET size == BucketSize(n, MAX_CHART_POINTS)
        buckets == CeilDiv(n, size)
        last == n - (buckets - 1) * size
    IN  IF flat THEN buckets
        ELSE 2 * (buckets - 1) + (IF last = 1 THEN 1 ELSE 2)

SamplerNever(s) == FALSE

\* the condition of the sampling branch
SamplerApplies(s) ==
    s.chart_type \in {"line", "area"} /\ s.points > MAX_CHART_POINTS

\* processedData.length
ProcessedLength(s) ==
    IF s.points = 0 THEN 0
    ELSE IF SamplerApplies(s) THEN SampleCount(s.points, s.flat)
    ELSE s.points

\* the guard of the renderer: it is called unless there is no data, with the
\* number of points alone
RendererGuard(s) ==
    IF s.points = 0 THEN <<>>
    ELSE <<CheckRenderingLimits(s.points, <<>>)>>

FallbackRequested(s) ==
    RendererGuard(s) # <<>> /\ RendererGuard(s)[1].needsFallback

\* tickInterval of the renderer
RendererTickInterval(n) ==
    IF n <= MAX_AXIS_TICKS THEN 0
    ELSE CeilDiv(n, MAX_AXIS_TICKS) - 1

\* interval of xAxisProps
AxisInterval(n) ==
    IF RendererTickInterval(n) > 0 THEN RendererTickInterval(n) - 1 ELSE 0

\* the card renders no ChartRenderer: it returns null ("nothing"), or it
\* renders its header alone (collapsed) or the DataTable
RenderWithoutChart(what) ==
    /\ shown' = what
    /\ guard' = <<>>
    /\ sampled' = FALSE
    /\ processedLen' = 0
    /\ interval' = 0
    /\ cpc' = "idle"
    /\ UNCHANGED <<viewMode, fallbackReason>>

\* the card renders a ChartRenderer: the guard, the callback of the card
\* when the guard asks for the fallback (it sets the state of the card, which
\* renders again), the sampler, and the chart of the chart type
RenderChart(s) ==
    /\ guard' = RendererGuard(s)
    /\ IF FallbackRequested(s)
       THEN /\ fallbackReason' = RendererGuard(s)[1].reason
            /\ viewMode' = "table"
            /\ cpc' = "update"
       ELSE /\ UNCHANGED <<viewMode, fallbackReason>>
            /\ cpc' = "idle"
    /\ sampled' = (s.points # 0 /\ SamplerApplies(s))
    /\ processedLen' = ProcessedLength(s)
    /\ interval' = AxisInterval(ProcessedLength(s))
    /\ shown' = IF s.chart_type \in DrawnTypes THEN "chart" ELSE "unsupported"

\* one render of the card, the first one or one that a change of its state
\* asked for
CardRender ==
    /\ cpc \in {"mount", "update"}
    /\ IF spec = <<>> THEN RenderWithoutChart("nothing")
       ELSE IF Ineligible(spec[1]) THEN RenderWithoutChart("nothing")
       ELSE IF ~isExpanded THEN RenderWithoutChart("header")
       ELSE IF viewMode = "chart" THEN RenderChart(spec[1])
       ELSE RenderWithoutChart("table")
    /\ UNCHANGED <<spec, isExpanded>>
    /\ UNCHANGED nonCardVars

\* a click on the header
ToggleExpanded ==
    /\ cpc = "idle"
    /\ shown # "nothing"
    /\ isExpanded' = ~isExpanded
    /\ cpc' = "update"
    /\ UNCHANGED <<spec, viewMode, fallbackReason, shown,
                   guard, sampled, processedLen, interval>>
    /\ UNCHANGED nonCardVars

\* the two buttons are there when the card is expanded and has data
ToggleShown ==
    /\ cpc = "idle"
    /\ shown \in {"chart", "unsupported", "table"}
    /\ spec[1].points > 0

ChartButtonNeverDisabled == FALSE

\* disabled={fallbackReason !== null} of the chart button
ChartButtonDisabled == fallbackReason # <<>>

\* a click on the chart button, unless it is disabled
ClickChart ==
    /\ ToggleShown
    /\ ~ChartButtonDisabled
    /\ viewMode' = "chart"
    /\ cpc' = IF viewMode = "chart" THEN "idle" ELSE "update"
    /\ UNCHANGED <<spec, isExpanded, fallbackReason, shown,
                   guard, sampled, processedLen, interval>>
    /\ UNCHANGED nonCardVars

\* a click on the table button
ClickTable ==
    /\ ToggleShown
    /\ viewMode' = "table"
    /\ cpc' = IF viewMode = "table" THEN "idle" ELSE "update"
    /\ UNCHANGED <<spec, isExpanded, fallbackReason, shown,
                   guard, sampled, processedLen, interval>>
    /\ UNCHANGED nonCardVars

CardInit ==
    /\ SamplerIdle
    /\ UtilIdle
    /\ AppIdle
    /\ spec \in CardSpecs
    /\ isExpanded = TRUE
    /\ viewMode = "chart"
    /\ fallbackReason = <<>>
    /\ cpc = "mount"
    /\ shown = "nothing"
    /\ RendererIdle

CardNext ==
    \/ CardRender
    \/ ToggleExpanded
    \/ ClickChart
    \/ ClickTable

CardSpec == CardInit /\ [][CardNext]_vars

\* a render that the card or a change of its state asked for is carried out;
\* the clicks are left to the user
FairCardSpec == CardInit /\ [][CardNext]_vars /\ WF_vars(CardRender)

\* the card has rendered a spec that carries a reason
RenderedIneligible ==
    /\ spec # <<>>
    /\ spec[1].fallback_reason # <<>>
    /\ spec[1].fallback_reason # <<"">>
    /\ cpc = "idle"

\* C19 as stated: whenever a ChartSpec carries a non-empty fallback_reason,
\* the visualization card suppresses the chart and presents the data in the
\* tabular view.
FallbackReasonShowsTable ==
    RenderedIneligible => shown = "table"

\* C19: whenever a ChartSpec carries a non-empty fallback_reason, the
\* visualization card suppresses chart rendering entirely and renders
\* nothing at all: neither the chart nor the tabular view, no ChartRenderer.
FallbackReasonShowsNothing ==
    RenderedIneligible =>
        /\ shown = "nothing"
        /\ guard = <<>>
        /\ ~sampled

\* a line chart of 12 points with a reason has been rendered as nothing
FallbackReasonWitness ==
    /\ RenderedIneligible
    /\ spec[1].chart_type = "line"
    /\ spec[1].points = 12
    /\ shown = "nothing"

\* C20: guard before sampler, reject early.  In every render of the
\* ChartRenderer the guard is evaluated on the raw number of points, and when
\* it returns needsFallback the render is rejected: the sampler is not run
\* on that input and no chart is drawn from it.
RejectEarly ==
    (guard # <<>> /\ guard[1].needsFallback) =>
        /\ guard[1] = CheckRenderingLimits(spec[1].points, <<>>)
        /\ ~sampled
        /\ shown # "chart"

\* the renderer has drawn the chart of a spec of one of the given types
ChartDrawn(types) ==
    /\ spec # <<>>
    /\ spec[1].chart_type \in types
    /\ shown = "chart"

\* C22: category guard for bar/donut charts.  A chart of type bar,
\* horizontal_bar or donut whose data has more than MAX_CATEGORIES
\* categories is never drawn as a chart by the renderer.
CategoryGuard ==
    ChartDrawn({"bar", "horizontal_bar", "donut"}) =>
        spec[1].points <= MAX_CATEGORIES

\* C23: sampler wired into the renderer.  For every spec of type line or
\* area and every data length, processedData has at most MAX_CHART_POINTS
\* points, and it has exactly the input points when the input has at most
\* MAX_CHART_POINTS points.
ProcessedDataBound ==
    ChartDrawn({"line", "area"}) =>
        /\ processedLen <= MAX_CHART_POINTS
        /\ spec[1].points <= MAX_CHART_POINTS => processedLen = spec[1].points

\* a line chart of MAX_CHART_POINTS + 1 different values has been sampled
\* down to two points of each bucket of three
ProcessedDataWitness ==
    /\ ChartDrawn({"line"})
    /\ spec[1].points = MAX_CHART_POINTS + 1
    /\ ~spec[1].flat
    /\ sampled
    /\ processedLen = 2 * ((MAX_CHART_POINTS + 1) \div 3)

\* C24: axis tick cap.  The interval the renderer passes to the x-axis makes
\* the axis display at most MAX_AXIS_TICKS labels: with every
\* (interval + 1)-th point labelled, ceil(n / (interval + 1)) <= 10.
AxisLabelBound ==
    ChartDrawn({"line", "area", "bar"}) =>
        CeilDiv(processedLen, interval + 1) <= MAX_AXIS_TICKS

SingleDecision ==
    [][/\ shown = "chart" => shown' # "table"
       /\ shown = "table" => shown' # "chart"]_vars

(***************************************************************************)
(* The session store (src/src/lib/api.ts, useSessionStore).  An action of  *)
(* the store is an operator from the state of the store to its next state, *)
(* so that a handler that calls several of them composes them.  Kept are   *)
(* the fields the status, the error, the messages and the typing flag      *)
(* depend on.                                                              *)
(***************************************************************************)
\* the number of sessions the calls of createSession make
MaxSessions == 2

SessionStatuses == {"idle", "uploading", "processing", "ready", "error"}

\* the arguments of setError: null, the empty string, a message
ErrorArgs == {<<>>, <<"">>, <<"Request failed">>}

\* a string | null that is not null and not empty
Truthy(e) == e # <<>> /\ e # <<"">>

SetStatus(st, status) ==
    [st EXCEPT !.status = status,
               !.error = IF status = "error" THEN st.error ELSE <<>>]

SetError(st, error) ==
    [st EXCEPT !.error = error,
               !.status = IF Truthy(error) THEN "error" ELSE st.status]

\* generateId() is an id no session has yet
NewSession(st) ==
    [id |-> Len(st.sessions) + 1, status |-> "idle", dataset |-> <<>>]

CreateSession(st) ==
    [st EXCEPT !.sessions = <<NewSession(st)>> \o st.sessions,
               !.currentSession = <<NewSession(st)>>,
               !.dataset = <<>>,
               !.healthCheck = <<>>,
               !.insights = <<>>,
               !.messages = <<>>,
               !.status = "idle",
               !.error = <<>>]

\* sessions.find((s) => s.id === sessionId): <<>> when there is none
FindSession(st, sessionId) ==
    LET found == {k \in 1..Len(st.sessions) : st.sessions[k].id = sessionId}
    IN  IF found = {} THEN <<>>
        ELSE <<st.sessions[CHOOSE k \in found : \A j \in found : k <= j]>>

SelectSession(st, sessionId) ==
    IF FindSession(st, sessionId) = <<>> THEN st
    ELSE [st EXCEPT !.currentSession = FindSession(st, sessionId),
                    !.messages = <<>>,
                    !.status = FindSession(st, sessionId)[1].status]

SetDataset(st, dataset) ==
    [st EXCEPT !.dataset = <<dataset>>,
               !.currentSession =
                   IF st.currentSession = <<>> THEN <<>>
                   ELSE <<[st.currentSession[1] EXCEPT
                              !.dataset = <<dataset>>, !.status = "ready"]>>]

SetHealthCheck(st, healthCheck) == [st EXCEPT !.healthCheck = healthCheck]

SetInsights(st, insights) == [st EXCEPT !.insights = insights]

SetSuggestedQuestions(st, questions) ==
    [st EXCEPT !.suggestedQuestions = questions]

AddMessage(st, message) ==
    [st EXCEPT !.messages = Append(st.messages, message)]

SetIsTyping(st, typing) == [st EXCEPT !.isTyping = typing]

SetMappingState(st, active) == [st EXCEPT !.mappingActive = active]

Reset(st) ==
    [st EXCEPT !.currentSession = <<>>,
               !.dataset = <<>>,
               !.healthCheck = <<>>,
               !.insights = <<>>,
               !.suggestedQuestions = <<>>,
               !.messages = <<>>,
               !.isTyping = FALSE,
               !.status = "idle",
               !.error = <<>>]

\* the rest of the component does not move while the store is called
AppStill ==
    UNCHANGED <<apiAvailable, hpc, retries, delay, timers, fpc, mpc>>

CallSetStatus ==
    /\ \E status \in SessionStatuses : store' = SetStatus(store, status)
    /\ AppStill
    /\ UNCHANGED nonAppVars

CallSetError ==
    /\ \E error \in ErrorArgs : store' = SetError(store, error)
    /\ AppStill
    /\ UNCHANGED nonAppVars

CallCreateSession ==
    /\ Len(store.sessions) < MaxSessions
    /\ store' = CreateSession(store)
    /\ AppStill
    /\ UNCHANGED nonAppVars

\* with the id of a session or with an id of no session
CallSelectSession ==
    /\ \E sessionId \in 1..(Len(store.sessions) + 1) :
           store' = SelectSession(store, sessionId)
    /\ AppStill
    /\ UNCHANGED nonAppVars

CallSetDataset ==
    /\ \E dataset \in Uploads : store' = SetDataset(store, dataset)
    /\ AppStill
    /\ UNCHANGED nonAppVars

CallReset ==
    /\ store' = Reset(store)
    /\ AppStill
    /\ UNCHANGED nonAppVars

StoreInit ==
    /\ SamplerIdle
    /\ UtilIdle
    /\ CardIdle
    /\ AppIdle

StoreNext ==
    \/ CallSetStatus
    \/ CallSetError
    \/ CallCreateSession
    \/ CallSelectSession
    \/ CallSetDataset
    \/ CallReset

StoreSpec == StoreInit /\ [][StoreNext]_vars

\* C27: session store error/status consistency.  After any sequence of the
\* store actions setStatus, setError, createSession, selectSession,
\* setDataset and reset, whenever error holds a non-empty message the status
\* is "error", and whenever the status is not "error" the error is null.
ErrorStatusConsistent ==
    /\ Truthy(store.error) => store.status = "error"
    /\ store.status # "error" => store.error = <<>>

(***************************************************************************)
(* AppContent (src/src/components/app/app-content.tsx): the availability   *)
(* probe of the mount effect, handleFileSelect, handleSendMessage and the  *)
(* clicks that call the store (sidebar, Try Again).  An async handler is   *)
(* one action per stretch between two awaits; a request that settles       *)
(* resolves or rejects.                                                    *)
(***************************************************************************)
\* the number of sessions up to which New Analysis is clicked
MaxAnalyses == 1

\* checkHealth = async (retries = 3, delay = 1000)
DefaultRetries == 3

DefaultDelay == 1000

NextDelayConstant(d) == d

\* delay * 2
NextDelay(d) == d * 2

\* the variables of the probe
ProbeVars == <<apiAvailable, hpc, retries, delay, timers>>

\* api.healthCheck() resolves
HealthResolves ==
    /\ hpc = "request"
    /\ apiAvailable' = TRUE
    /\ hpc' = "stopped"
    /\ UNCHANGED <<retries, delay, timers, store>>
    /\ UNCHANGED <<fpc, mpc>>
    /\ UNCHANGED nonAppVars

\* api.healthCheck() rejects: the next attempt is put on a timer while
\* retries are left
HealthRejects ==
    /\ hpc = "request"
    /\ IF retries > 0
       THEN /\ timers' = Append(timers, delay)
            /\ hpc' = "timer"
            /\ UNCHANGED apiAvailable
       ELSE /\ apiAvailable' = FALSE
            /\ hpc' = "stopped"
            /\ UNCHANGED timers
    /\ UNCHANGED <<retries, delay, store>>
    /\ UNCHANGED <<fpc, mpc>>
    /\ UNCHANGED nonAppVars

\* the timer fires: checkHealth(retries - 1, delay * 2)
TimerFires ==
    /\ hpc = "timer"
    /\ retries' = retries - 1
    /\ delay' = NextDelay(delay)
    /\ hpc' = "request"
    /\ UNCHANGED <<apiAvailable, timers, store>>
    /\ UNCHANGED <<fpc, mpc>>
    /\ UNCHANGED nonAppVars

IsIdle == store.status = "idle" /\ store.dataset = <<>>

IsError == store.status = "error"

HasData == store.status = "ready" /\ store.dataset # <<>>

\* the calls of a handler are numbered in the order they are made
NextCall(pcs, c) ==
    /\ pcs[c] = "idle"
    /\ \A b \in DOMAIN pcs : b < c => pcs[b] # "idle"

AnalysisMessage == [role |-> "assistant", kind |-> "analysis"]

UploadApology == [role |-> "assistant", kind |-> "upload apology"]

UserMessage == [role |-> "user", kind |-> "question"]

AnswerMessage == [role |-> "assistant", kind |-> "answer"]

MappingMessage == [role |-> "assistant", kind |-> "mapping request"]

QuestionApology == [role |-> "assistant", kind |-> "question apology"]

\* the message of the Error a request rejects with; api.request throws
\* new Error(error.detail || error.error), whose message can be empty
Thrown == {"", "Request failed"}

\* the requests of handleFileSelect in their order
Fetches == <<"upload", "profile", "health", "insights", "questions">>

FetchNames == {Fetches[k] : k \in DOMAIN Fetches}

AfterFetch(f) ==
    IF f = Fetches[Len(Fetches)] THEN "done"
    ELSE Fetches[1 + CHOOSE k \in DOMAIN Fetches : Fetches[k] = f]

SwallowedNone(f) == FALSE

\* the requests that have a try/catch of their own
Swallowed(f) == f \in {"health", "insights", "questions"}

\* handleFileSelect up to await api.uploadDataset(file); the WelcomeView
\* gives it to the upload zone while the API is available
FileSelect(u) ==
    /\ IsIdle
    /\ apiAvailable
    /\ NextCall(fpc, u)
    /\ store' = SetSuggestedQuestions(
                    SetHealthCheck(
                        SetError(SetStatus(CreateSession(store), "uploading"),
                                 <<>>),
                        <<>>),
                    <<>>)
    /\ fpc' = [fpc EXCEPT ![u] = "upload"]
    /\ UNCHANGED <<ProbeVars, mpc>>
    /\ UNCHANGED nonAppVars

\* what follows a request that resolved, up to the next await or the end
Resolved(st, u, f) ==
    CASE f = "upload" -> SetStatus(st, "processing")
      [] f = "profile" -> AddMessage(SetDataset(st, u), AnalysisMessage)
      [] f = "health" -> SetHealthCheck(st, <<"health check">>)
      [] f = "insights" -> SetInsights(st, <<"insight">>)
      [] f = "questions" ->
            SetStatus(SetSuggestedQuestions(st, <<"question">>), "ready")

\* what follows the catch of a request that has one of its own
Skipped(st, f) ==
    IF f = "questions" THEN SetStatus(st, "ready") ELSE st

\* the catch of handleFileSelect
FileCatch(st, errorMessage) ==
    AddMessage(SetStatus(SetError(st, <<errorMessage>>), "error"),
               UploadApology)

FetchResolves(u) ==
    /\ fpc[u] \in FetchNames
    /\ store' = Resolved(store, u, fpc[u])
    /\ fpc' = [fpc EXCEPT ![u] = AfterFetch(fpc[u])]
    /\ UNCHANGED <<ProbeVars, mpc>>
    /\ UNCHANGED nonAppVars

FetchRejects(u) ==
    /\ fpc[u] \in FetchNames
    /\ IF Swallowed(fpc[u])
       THEN /\ store' = Skipped(store, fpc[u])
            /\ fpc' = [fpc EXCEPT ![u] = AfterFetch(fpc[u])]
       ELSE /\ \E errorMessage \in Thrown :
                   store' = FileCatch(store, errorMessage)
            /\ fpc' = [fpc EXCEPT ![u] = "done"]
    /\ UNCHANGED <<ProbeVars, mpc>>
    /\ UNCHANGED nonAppVars

\* the ChatInput is there with data and enabled unless isTyping; the
\* suggested questions are there under the first assistant message
CanSend ==
    /\ HasData
    /\ \/ ~store.isTyping
       \/ /\ Len(store.messages) = 1
          /\ store.messages[1].role = "assistant"
          /\ store.suggestedQuestions # <<>>

\* handleSendMessage up to await api.executeQuestion(dataset.id, content)
SendMessage(m) ==
    /\ CanSend
    /\ NextCall(mpc, m)
    /\ IF store.dataset = <<>>
       THEN /\ mpc' = [mpc EXCEPT ![m] = "done"]
            /\ UNCHANGED store
       ELSE /\ store' = SetIsTyping(AddMessage(store, UserMessage), TRUE)
            /\ mpc' = [mpc EXCEPT ![m] = "request"]
    /\ UNCHANGED <<ProbeVars, fpc>>
    /\ UNCHANGED nonAppVars

\* the request resolves with an answer that is formatted, resolves with a
\* column_mapping_required result, rejects, or resolves with a result whose
\* formatting throws
Outcomes == {"answer", "mapping", "failure", "exception"}

TypingInCatchKept == TRUE

\* setIsTyping(false) of the catch
TypingInCatch == FALSE

Settled(st, o) ==
    CASE o = "answer" -> AddMessage(SetIsTyping(st, FALSE), AnswerMessage)
      [] o = "mapping" ->
            SetIsTyping(AddMessage(SetMappingState(st, TRUE), MappingMessage),
                        FALSE)
      [] OTHER -> AddMessage(SetIsTyping(st, TypingInCatch), QuestionApology)

SendSettles(m) ==
    /\ mpc[m] = "request"
    /\ \E o \in Outcomes : store' = Settled(store, o)
    /\ mpc' = [mpc EXCEPT ![m] = "done"]
    /\ UNCHANGED <<ProbeVars, fpc>>
    /\ UNCHANGED nonAppVars

\* the New Analysis button of the sidebar
NewAnalysis ==
    /\ Len(store.sessions) < MaxAnalyses
    /\ store' = CreateSession(store)
    /\ AppStill
    /\ UNCHANGED nonAppVars

\* a click on a session of the sidebar
PickSession ==
    /\ \E k \in 1..Len(store.sessions) :
           store' = SelectSession(store, store.sessions[k].id)
    /\ AppStill
    /\ UNCHANGED nonAppVars

\* the Try Again button of the error state
TryAgain ==
    /\ IsError
    /\ store' = SetStatus(store, "idle")
    /\ AppStill
    /\ UNCHANGED nonAppVars

\* the component has mounted: the effect has called checkHealth()
AppInit ==
    /\ SamplerIdle
    /\ UtilIdle
    /\ CardIdle
    /\ store = InitialStore
    /\ apiAvailable = TRUE
    /\ hpc = "request"
    /\ retries = DefaultRetries
    /\ delay = DefaultDelay
    /\ timers = <<>>
    /\ NoCalls

AppNext ==
    \/ HealthResolves
    \/ HealthRejects
    \/ TimerFires
    \/ \E u \in Uploads : FileSelect(u)
    \/ \E u \in Uploads : FetchResolves(u)
    \/ \E u \in Uploads : FetchRejects(u)
    \/ \E m \in Sends : SendMessage(m)
    \/ \E m \in Sends : SendSettles(m)
    \/ NewAnalysis
    \/ PickSession
    \/ TryAgain

AppSpec == AppInit /\ [][AppNext]_vars

\* a request settles and a timer fires; the clicks are left to the user
FairAppSpec ==
    /\ AppInit
    /\ [][AppNext]_vars
    /\ WF_vars(HealthResolves \/ HealthRejects)
    /\ WF_vars(TimerFires)
    /\ \A u \in Uploads : WF_vars(FetchResolves(u) \/ FetchRejects(u))
    /\ \A m \in Sends : WF_vars(SendSettles(m))

\* the probe alone, whatever is done to the store meanwhile: the probe
\* reads and writes none of it
ProbeNext ==
    \/ HealthResolves
    \/ HealthRejects
    \/ TimerFires
    \/ StoreNext

FairProbeSpec ==
    /\ AppInit
    /\ [][ProbeNext]_vars
    /\ WF_vars(HealthResolves \/ HealthRejects)
    /\ WF_vars(TimerFires)

\* the call m of handleSendMessage takes the step from position a to b
SendStep(m, a, b) == mpc[m] = a /\ mpc'[m] = b

\* C28: the typing flag is always released.  Every call of
\* handleSendMessage that sets isTyping to true adds exactly one user message
\* before it issues the request, and its request settles (an answer of any
\* type, a column-mapping request, an API failure or an exception while the
\* result is formatted) with isTyping set back to false, so that a chat
\* input disabled by isTyping is always enabled again.
TypingReleased ==
    /\ [][\A m \in Sends :
            /\ SendStep(m, "idle", "request") =>
                   /\ store'.isTyping
                   /\ store'.messages = Append(store.messages, UserMessage)
            /\ SendStep(m, "request", "done") => ~store'.isTyping]_vars
    /\ \A m \in Sends : (mpc[m] = "request") ~> (mpc[m] = "done")
    /\ store.isTyping ~> ~store.isTyping

\* a call has ended in the catch: the apology is the last message and the
\* typing flag is down
TypingReleasedWitness ==
    /\ \E m \in Sends : mpc[m] = "done"
    /\ store.messages # <<>>
    /\ store.messages[Len(store.messages)] = QuestionApology
    /\ ~store.isTyping

\* the call u of handleFileSelect takes a step to position b
FileStepTo(u, b) == fpc[u] # b /\ fpc'[u] = b

\* C29: upload status machine.  A call of handleFileSelect moves the status
\* from idle to uploading, to processing when the upload resolves and to
\* ready when the upload and the profile fetch have resolved, whether the
\* health-check, insights and suggested-questions fetches resolve or reject;
\* when the upload or the profile fetch rejects it ends with status "error",
\* a non-null error and the apology as the last message; so that the call
\* never ends with the status at uploading or processing.
UploadStatusMachine ==
    [][\A u \in Uploads :
         /\ FileStepTo(u, "upload") =>
                store.status = "idle" /\ store'.status = "uploading"
         /\ FileStepTo(u, "profile") => store'.status = "processing"
         /\ FileStepTo(u, "done") =>
                IF fpc[u] \in {"upload", "profile"}
                THEN /\ store'.status = "error"
                     /\ store'.error # <<>>
                     /\ store'.messages =
                            Append(store.messages, UploadApology)
                ELSE /\ fpc[u] = "questions"
                     /\ store'.status = "ready"]_vars

\* a call has ended ready although its health-check, insights and
\* suggested-questions fetches all rejected
UploadStatusWitness ==
    /\ \E u \in Uploads : fpc[u] = "done" /\ store.dataset = <<u>>
    /\ store.status = "ready"
    /\ store.healthCheck = <<>>
    /\ store.insights = <<>>
    /\ store.suggestedQuestions = <<>>

\* the attempts of the probe so far
Attempts == IF hpc = "timer" THEN Len(timers) ELSE Len(timers) + 1

\* C30: bounded health-check retry.  The probe makes at most 4 attempts (1
\* and 3 retries) with the delays 1000, 2000, 4000 ms between them; once it
\* has stopped it schedules nothing more; a probe that stopped before its
\* 4th attempt leaves apiAvailable true, and apiAvailable is false only
\* after the 4th attempt failed; and the probe always eventually stops.
BoundedHealthRetry ==
    /\ [](/\ Attempts <= DefaultRetries + 1
          /\ \A k \in 1..Len(timers) : timers[k] = DefaultDelay * 2 ^ (k - 1)
          /\ ~apiAvailable =>
                 hpc = "stopped" /\ Attempts = DefaultRetries + 1)
    /\ [][hpc = "stopped" => hpc' = "stopped" /\ timers' = timers]_vars
    /\ <>(hpc = "stopped")

\* four attempts have failed
BoundedHealthWitness ==
    /\ hpc = "stopped"
    /\ ~apiAvailable
    /\ timers = <<1000, 2000, 4000>>

====
